---- MODULE Spec2Model ----
(***************************************************************************)
(* Model of ocrbridge.core.utils.hocr: the EasyOCR -> hOCR conversion      *)
(* (word extraction, line grouping, serialisation), the hOCR parser and    *)
(* the validator.                                                          *)
(*                                                                         *)
(* Representation.                                                         *)
(*  - A character is a one-character string; a text is a sequence of       *)
(*    characters.  "^K" stands for U+000B, a character XML 1.0 forbids.    *)
(*  - Polygon coordinates are floats in the source; here they are kept in  *)
(*    half-pixels (the integer 3 is 1.5 px), so that int() really          *)
(*    truncates.                                                           *)
(*  - y_center = (y_min + y_max) / 2 and line_threshold = median * 0.5     *)
(*    are halves of integers; both are kept doubled (in half-pixels), so   *)
(*    the comparison of the sweep is exact integer arithmetic.             *)
(*  - A confidence is kept in thousandths (957 is 0.957); the rounding of  *)
(*    the float product confidence * 100 is not modelled.                  *)
(*  - An hOCR string is a sequence of tokens (one per markup item); the    *)
(*    word text inside a token is the character sequence as written.       *)
(*                                                                         *)
(* State.                                                                  *)
(*    pc               where the caller stands: "convert", "parse",        *)
(*                     "validate", "done" ("escape", "unescape" for the    *)
(*                     escaping of a single text)                          *)
(*    easyocr_results, image_width, image_height                           *)
(*                     the arguments of easyocr_to_hocr                    *)
(*    median_height, line_threshold, lines                                 *)
(*                     the locals of the grouping once it has run          *)
(*    hocr_content     the hOCR string (converted, or of any origin)       *)
(*    info             what parse_hocr did: raised / returned HOCRInfo     *)
(*    outcome          what validate_hocr did: raised / returned           *)
(*    text, escaped_text, unescaped_text                                   *)
(*                     one word text, its escaping, and what an XML        *)
(*                     parser reads back                                   *)
(***************************************************************************)
EXTENDS Integers, Sequences, FiniteSets, TLC

VARIABLES pc, easyocr_results, image_width, image_height, median_height,
          line_threshold, lines, hocr_content, info, outcome, text,
          escaped_text, unescaped_text

vars == <<pc, easyocr_results, image_width, image_height, median_height,
          line_threshold, lines, hocr_content, info, outcome, text,
          escaped_text, unescaped_text>>

----------------------------------------------------------------------------
(* Bounds of the model. *)

\* longest detection list of the conversion specification
MaxWords == 3
\* largest pixel row of a detection's top or bottom edge
MaxY == 2
\* longest text of the escaping specification
MaxTextLen == 4
\* longest detection list of the text round-trip specification
MaxDocWords == 2
\* longest token sequence handed to the validator
MaxDocLen == 4

----------------------------------------------------------------------------
(* Arithmetic helpers (Python built-ins). *)

Abs(x) == IF x >= 0 THEN x ELSE -x

MinOf(S) == CHOOSE m \in S : \A e \in S : m <= e

MaxOf(S) == CHOOSE m \in S : \A e \in S : m >= e

\* int(c) of a float given in half-pixels: truncation toward zero.
TruncToInt(c) == IF c >= 0 THEN c \div 2 ELSE -((-c) \div 2)

----------------------------------------------------------------------------
(* Word extraction: hocr.py lines 146-171. *)

WordOf(result) ==
    LET x_coords == {result.bbox[p][1] : p \in 1..Len(result.bbox)}
        y_coords == {result.bbox[p][2] : p \in 1..Len(result.bbox)}
        x_min == TruncToInt(MinOf(x_coords))
        x_max == TruncToInt(MaxOf(x_coords))
        y_min == TruncToInt(MinOf(y_coords))
        y_max == TruncToInt(MaxOf(y_coords))
    IN  [text       |-> result.text,
         confidence |-> result.confidence,
         bbox       |-> <<x_min, y_min, x_max, y_max>>,
         y_center   |-> y_min + y_max,      \* doubled: (y_min + y_max) / 2
         height     |-> y_max - y_min,
         x_min      |-> x_min]

ExtractWords(results) == [i \in 1..Len(results) |-> WordOf(results[i])]

----------------------------------------------------------------------------
(* list.sort(key=...): a stable sort, as an insertion sort that places an  *)
(* element after the elements whose key is not larger.                     *)

RECURSIVE InsertByKey(_, _, _)
InsertByKey(sorted, e, key) ==
    IF sorted = <<>> THEN <<e>>
    ELSE IF sorted[Len(sorted)][key] <= e[key] THEN Append(sorted, e)
    ELSE Append(InsertByKey(SubSeq(sorted, 1, Len(sorted) - 1), e, key),
                sorted[Len(sorted)])

RECURSIVE StableSortByKey(_, _)
StableSortByKey(s, key) ==
    IF s = <<>> THEN <<>>
    ELSE InsertByKey(StableSortByKey(SubSeq(s, 1, Len(s) - 1), key),
                     s[Len(s)], key)

\* heights.sort(): hocr.py line 178
RECURSIVE InsertNumber(_, _)
InsertNumber(sorted, n) ==
    IF sorted = <<>> THEN <<n>>
    ELSE IF sorted[Len(sorted)] <= n THEN Append(sorted, n)
    ELSE Append(InsertNumber(SubSeq(sorted, 1, Len(sorted) - 1), n),
                sorted[Len(sorted)])

RECURSIVE SortNumbers(_)
SortNumbers(s) ==
    IF s = <<>> THEN <<>>
    ELSE InsertNumber(SortNumbers(SubSeq(s, 1, Len(s) - 1)), s[Len(s)])

----------------------------------------------------------------------------
(* Median height and threshold: hocr.py lines 176-182. *)

\* the other middle index of an even count
LowerMedianIndex(count) == (count - 1) \div 2

\* len(heights) // 2, a 0-based index
MedianIndex(count) == count \div 2

MedianHeight(words) ==
    LET heights == SortNumbers([i \in 1..Len(words) |-> words[i].height])
    IN  heights[MedianIndex(Len(heights)) + 1]

\* median_height * 0.5, doubled like y_center
LineThreshold(words) == MedianHeight(words)

----------------------------------------------------------------------------
(* The sweep: hocr.py lines 184-204. *)

\* the words left in input order
UnsortedByYCenter(words) == words

\* words.sort(key=lambda w: w["y_center"])
SortByYCenter(words) == StableSortByKey(words, "y_center")

\* the test with < in place of <=
StrictlyWithin(y_center, current_y_center, threshold) ==
    Abs(y_center - current_y_center) < threshold

\* abs(word["y_center"] - current_y_center) <= line_threshold
BelongsToCurrentLine(y_center, current_y_center, threshold) ==
    Abs(y_center - current_y_center) <= threshold

\* A closed line; anchor records current_y_center at the time of the append.
ClosedLine(current_line_words, current_y_center) ==
    [anchor |-> current_y_center, words |-> current_line_words]

\* a sweep that compares each word with the previous word of the line
\* (current_y_center follows the last word appended)
RECURSIVE SweepFromDrifting(_, _, _, _, _, _)
SweepFromDrifting(words, i, threshold, closed, current_line_words, current_y_center) ==
    IF i > Len(words)
    THEN Append(closed, ClosedLine(current_line_words,
                                   current_line_words[1].y_center))
    ELSE IF BelongsToCurrentLine(words[i].y_center, current_y_center,
                                 threshold)
    THEN SweepFromDrifting(words, i + 1, threshold, closed,
                           Append(current_line_words, words[i]),
                           words[i].y_center)
    ELSE SweepFromDrifting(words, i + 1, threshold,
                           Append(closed,
                                  ClosedLine(current_line_words,
                                             current_line_words[1].y_center)),
                           <<words[i]>>, words[i].y_center)

\* the loop "for word in words[1:]" from word i on, and the final append
RECURSIVE SweepFrom(_, _, _, _, _, _)
SweepFrom(words, i, threshold, closed, current_line_words, current_y_center) ==
    IF i > Len(words)
    THEN Append(closed, ClosedLine(current_line_words, current_y_center))
    ELSE IF BelongsToCurrentLine(words[i].y_center, current_y_center,
                                 threshold)
    THEN SweepFrom(words, i + 1, threshold, closed,
                   Append(current_line_words, words[i]), current_y_center)
    ELSE SweepFrom(words, i + 1, threshold,
                   Append(closed,
                          ClosedLine(current_line_words, current_y_center)),
                   <<words[i]>>, words[i].y_center)

----------------------------------------------------------------------------
(* Per-line processing: hocr.py lines 206-220. *)

\* the line left in y_center order
UnsortedByXMin(line_words) == line_words

\* line_words.sort(key=lambda w: w["x_min"])
SortByXMin(line_words) == StableSortByKey(line_words, "x_min")

LineBBox(line_words) ==
    <<MinOf({line_words[i].bbox[1] : i \in 1..Len(line_words)}),
      MinOf({line_words[i].bbox[2] : i \in 1..Len(line_words)}),
      MaxOf({line_words[i].bbox[3] : i \in 1..Len(line_words)}),
      MaxOf({line_words[i].bbox[4] : i \in 1..Len(line_words)})>>

ResultLine(closed_line) ==
    LET line_words == SortByXMin(closed_line.words)
    IN  [bbox   |-> LineBBox(line_words),
         words  |-> line_words,
         anchor |-> closed_line.anchor]

\* _group_easyocr_words_into_lines
GroupEasyocrWordsIntoLines(results) ==
    IF results = <<>> THEN <<>>
    ELSE LET extracted      == ExtractWords(results)
             threshold == LineThreshold(extracted)
             words          == SortByYCenter(extracted)
             closed         == SweepFrom(words, 2, threshold, <<>>,
                                         <<words[1]>>, words[1].y_center)
         IN  [l \in 1..Len(closed) |-> ResultLine(closed[l])]

----------------------------------------------------------------------------
(* Text escaping: hocr.py lines 276-284, and the XML reading of character  *)
(* data (what xml.etree does with the escaped text).                       *)

\* str.replace(ch, replacement) for a one-character pattern
RECURSIVE Replace(_, _, _)
Replace(s, ch, replacement) ==
    IF s = <<>> THEN <<>>
    ELSE (IF s[1] = ch THEN replacement ELSE <<s[1]>>) \o Replace(Tail(s), ch, replacement)

\* the five replacements with & replaced last
EscapeAmpersandLast(t) ==
    Replace(Replace(Replace(Replace(Replace(t,
        "<", <<"&", "l", "t", ";">>),
        ">", <<"&", "g", "t", ";">>),
        "\"", <<"&", "q", "u", "o", "t", ";">>),
        "'", <<"&", "a", "p", "o", "s", ";">>),
        "&", <<"&", "a", "m", "p", ";">>)

\* .replace("&", "&amp;").replace("<", "&lt;").replace(">", "&gt;")
\* .replace('"', "&quot;").replace("'", "&apos;")
EscapeText(t) ==
    Replace(Replace(Replace(Replace(Replace(t,
        "&", <<"&", "a", "m", "p", ";">>),
        "<", <<"&", "l", "t", ";">>),
        ">", <<"&", "g", "t", ";">>),
        "\"", <<"&", "q", "u", "o", "t", ";">>),
        "'", <<"&", "a", "p", "o", "s", ";">>)

\* The predefined entities of XML.
Entities ==
    { [ref |-> <<"&", "a", "m", "p", ";">>,           char |-> "&"],
      [ref |-> <<"&", "l", "t", ";">>,                char |-> "<"],
      [ref |-> <<"&", "g", "t", ";">>,                char |-> ">"],
      [ref |-> <<"&", "q", "u", "o", "t", ";">>,      char |-> "\""],
      [ref |-> <<"&", "a", "p", "o", "s", ";">>,      char |-> "'"] }

IsPrefix(p, s) == Len(p) <= Len(s) /\ SubSeq(s, 1, Len(p)) = p

EntitiesAt(s) == {e \in Entities : IsPrefix(e.ref, s)}

\* Characters XML 1.0 does not allow in a document.
ForbiddenChars == {"^K"}

\* An "&" that is followed by a name and ";" but names no predefined entity.
RECURSIVE IsUnknownReference(_)
IsUnknownReference(rest) ==
    /\ rest # <<>>
    /\ rest[1] \notin {"&", "<", ">", "\"", "'", "^K"}
    /\ \/ (rest[1] = ";")
       \/ (rest[1] # ";" /\ IsUnknownReference(Tail(rest)))

\* Expat's reading of character data: the text it stands for, or the error.
RECURSIVE XmlUnescape(_)
XmlUnescape(s) ==
    IF s = <<>> THEN [error |-> "", chars |-> <<>>]
    ELSE IF s[1] = "<" \/ s[1] \in ForbiddenChars
    THEN [error |-> "not well-formed (invalid token)", chars |-> <<>>]
    ELSE IF s[1] = "&"
    THEN IF EntitiesAt(s) = {}
         THEN [error |-> IF Len(s) > 2 /\ s[2] # ";" /\ IsUnknownReference(Tail(s))
                         THEN "undefined entity"
                         ELSE "not well-formed (invalid token)",
               chars |-> <<>>]
         ELSE LET e    == CHOOSE x \in EntitiesAt(s) : TRUE
                  rest == XmlUnescape(SubSeq(s, Len(e.ref) + 1, Len(s)))
              IN  IF rest.error # "" THEN rest
                  ELSE [error |-> "", chars |-> <<e.char>> \o rest.chars]
    ELSE LET rest == XmlUnescape(Tail(s))
         IN  IF rest.error # "" THEN rest
             ELSE [error |-> "", chars |-> <<s[1]>> \o rest.chars]

----------------------------------------------------------------------------
(* The hOCR document as a token sequence. *)

NoId == [kind |-> "", page |-> 0, n |-> 0]

NoTitle == [has_bbox |-> FALSE, bbox |-> <<0, 0, 0, 0>>, x_wconf |-> -1]

BBoxTitle(bbox) == [has_bbox |-> TRUE, bbox |-> bbox, x_wconf |-> -1]

WordTitle(bbox, conf_percent) == [has_bbox |-> TRUE, bbox |-> bbox, x_wconf |-> conf_percent]

\* k: "xmldecl", "doctype", "open" (<tag ...>), "close" (</tag>),
\*    "empty" (<tag ... />), "elem" (<tag ...>chars</tag>), "text" (chars)
Token(k, tag, class, id, title, chars) ==
    [k |-> k, tag |-> tag, class |-> class, id |-> id, title |-> title, chars |-> chars]

OpenTag(tag, class, id, title) == Token("open", tag, class, id, title, <<>>)

CloseTag(tag) == Token("close", tag, "", NoId, NoTitle, <<>>)

EmptyTag(tag, class, title) == Token("empty", tag, class, NoId, title, <<>>)

TextToken(chars) == Token("text", "", "", NoId, NoTitle, chars)

----------------------------------------------------------------------------
(* easyocr_to_hocr: hocr.py lines 243-303. *)

\* the ten header lines, hocr.py lines 244-255
HocrHeader(width, height) ==
    << Token("xmldecl", "", "", NoId, NoTitle, <<>>),
       Token("doctype", "", "", NoId, NoTitle, <<>>),
       OpenTag("html", "", NoId, NoTitle),
       OpenTag("head", "", NoId, NoTitle),
       EmptyTag("meta", "", NoTitle),
       EmptyTag("meta", "", NoTitle),
       EmptyTag("meta", "", NoTitle),
       CloseTag("head"),
       OpenTag("body", "", NoId, NoTitle),
       OpenTag("div", "ocr_page", [kind |-> "page", page |-> 1, n |-> 0], BBoxTitle(<<0, 0, width, height>>)) >>

\* hocr.py line 301
HocrFooter == << CloseTag("div"), CloseTag("body"), CloseTag("html") >>

\* int(word_data["confidence"] * 100), the confidence in thousandths
ConfPercent(confidence) == (confidence * 100) \div 1000

\* the word element of hocr.py lines 286-293
WordElement(word_data, word_counter) ==
    Token("elem", "span", "ocrx_word", [kind |-> "word", page |-> 1, n |-> word_counter], WordTitle(word_data.bbox, ConfPercent(word_data.confidence)), EscapeText(word_data.text))

\* the inner loop over line_data["words"], starting with word_counter
WordElements(words, word_counter) ==
    [j \in 1..Len(words) |-> WordElement(words[j], word_counter + j - 1)]

\* a serialisation whose word counter restarts at 1 in every line
RECURSIVE SerializeLinesResetting(_, _, _)
SerializeLinesResetting(result_lines, line_idx, word_counter) ==
    IF line_idx > Len(result_lines) THEN <<>>
    ELSE << OpenTag("span", "ocr_line", [kind |-> "line", page |-> 1, n |-> line_idx], BBoxTitle(result_lines[line_idx].bbox)) >>
         \o WordElements(result_lines[line_idx].words, 1)
         \o << CloseTag("span") >>
         \o SerializeLinesResetting(result_lines, line_idx + 1, 1)

\* the loop "for line_idx, line_data in enumerate(lines, start=1)"
RECURSIVE SerializeLines(_, _, _)
SerializeLines(result_lines, line_idx, word_counter) ==
    IF line_idx > Len(result_lines) THEN <<>>
    ELSE << OpenTag("span", "ocr_line", [kind |-> "line", page |-> 1, n |-> line_idx], BBoxTitle(result_lines[line_idx].bbox)) >>
         \o WordElements(result_lines[line_idx].words, word_counter)
         \o << CloseTag("span") >>
         \o SerializeLines(result_lines, line_idx + 1, word_counter + Len(result_lines[line_idx].words))

\* the string built from the grouped lines: hocr.py lines 244-303
HocrDocument(result_lines, width, height) ==
    HocrHeader(width, height) \o SerializeLines(result_lines, 1, 1) \o HocrFooter

EasyocrToHocr(results, width, height) ==
    HocrDocument(GroupEasyocrWordsIntoLines(results), width, height)

----------------------------------------------------------------------------
(* ET.fromstring: hocr.py line 42.  The result is the ParseError's message *)
(* (without its line and column), or "" when the document is well formed. *)

JunkOr(seen_root, stack, other) ==
    IF seen_root /\ stack = <<>> THEN "junk after document element" ELSE other

RECURSIVE XmlScan(_, _, _, _)
XmlScan(doc, i, stack, seen_root) ==
    IF i > Len(doc)
    THEN IF seen_root /\ stack = <<>> THEN "" ELSE "no element found"
    ELSE LET tok    == doc[i]
             closed == seen_root /\ stack = <<>>
         IN  CASE tok.k = "xmldecl" ->
                    IF i = 1 THEN XmlScan(doc, i + 1, stack, seen_root)
                    ELSE JunkOr(seen_root, stack, "XML or text declaration not at start of entity")
               [] tok.k = "doctype" ->
                    IF ~seen_root THEN XmlScan(doc, i + 1, stack, seen_root)
                    ELSE JunkOr(seen_root, stack, "not well-formed (invalid token)")
               [] tok.k = "open" ->
                    IF closed THEN "junk after document element"
                    ELSE XmlScan(doc, i + 1, Append(stack, tok.tag), TRUE)
               [] tok.k = "close" ->
                    IF stack = <<>> THEN JunkOr(seen_root, stack, "not well-formed (invalid token)")
                    ELSE IF stack[Len(stack)] # tok.tag THEN "mismatched tag"
                    ELSE XmlScan(doc, i + 1, SubSeq(stack, 1, Len(stack) - 1), seen_root)
               [] tok.k = "empty" ->
                    IF closed THEN "junk after document element"
                    ELSE XmlScan(doc, i + 1, stack, TRUE)
               [] tok.k = "elem" ->
                    IF closed THEN "junk after document element"
                    ELSE IF XmlUnescape(tok.chars).error # "" THEN XmlUnescape(tok.chars).error
                    ELSE XmlScan(doc, i + 1, stack, TRUE)
               [] OTHER ->
                    IF stack = <<>>
                    THEN JunkOr(seen_root, stack, IF i = Len(doc) THEN "syntax error" ELSE "not well-formed (invalid token)")
                    ELSE IF XmlUnescape(tok.chars).error # "" THEN XmlUnescape(tok.chars).error
                    ELSE XmlScan(doc, i + 1, stack, seen_root)

FromString(doc) == XmlScan(doc, 1, <<>>, FALSE)

----------------------------------------------------------------------------
(* parse_hocr: hocr.py lines 28-68. *)

ElementIndices(doc) == {i \in 1..Len(doc) : doc[i].k \in {"open", "empty", "elem"}}

\* len(root.findall(".//*[@class='<class>']")): the descendants of the root
\* element (the root itself is not searched) whose class attribute is <class>
FindallClass(doc, class) ==
    Cardinality({i \in ElementIndices(doc) : doc[i].class = class /\ i # MinOf(ElementIndices(doc))})

\* the count, and the second query "with namespace" when the first found none
\* (the path holds no prefix, so the namespace map changes nothing)
CountClass(doc, class) ==
    IF FindallClass(doc, class) = 0 THEN FindallClass(doc, class) ELSE FindallClass(doc, class)

RECURSIVE ContainsSubSeq(_, _)
ContainsSubSeq(s, sub) ==
    /\ Len(s) >= Len(sub)
    /\ \/ IsPrefix(sub, s)
       \/ ContainsSubSeq(Tail(s), sub)

\* "bbox" in hocr_content: a title that holds a bbox, or the letters in a text
ContainsBbox(doc) ==
    \E i \in 1..Len(doc) : doc[i].title.has_bbox \/ ContainsSubSeq(doc[i].chars, <<"b", "b", "o", "x">>)

NoInfo == [page_count |-> 0, word_count |-> 0, has_bounding_boxes |-> FALSE]

\* The call's result: the exception raised ("" when it returns), its message
\* and the HOCRInfo returned.
ParseHocr(doc) ==
    IF FromString(doc) # ""
    THEN [raised |-> "HOCRParseError", message |-> <<"Failed to parse HOCR XML: ", FromString(doc)>>, hocr_info |-> NoInfo]
    ELSE [raised |-> "", message |-> <<>>,
          hocr_info |-> [page_count         |-> CountClass(doc, "ocr_page"),
                         word_count         |-> CountClass(doc, "ocrx_word"),
                         has_bounding_boxes |-> ContainsBbox(doc)]]

----------------------------------------------------------------------------
(* validate_hocr: hocr.py lines 71-90. *)

Returned == [raised |-> "", message |-> <<>>]

\* a validator without the try/except around parse_hocr
ValidateHocrWithoutCatch(doc) ==
    LET parsed == ParseHocr(doc)
    IN  IF parsed.raised # "" THEN [raised |-> parsed.raised, message |-> parsed.message]
        ELSE IF parsed.hocr_info.page_count = 0
        THEN [raised |-> "HOCRValidationError", message |-> <<"HOCR must contain at least one ocr_page">>]
        ELSE IF ~parsed.hocr_info.has_bounding_boxes
        THEN [raised |-> "HOCRValidationError", message |-> <<"HOCR must contain bounding box coordinates">>]
        ELSE Returned

ValidateHocr(doc) ==
    LET parsed == ParseHocr(doc)
    IN  IF parsed.raised = "HOCRParseError"
        THEN [raised |-> "HOCRValidationError", message |-> <<"HOCR parsing failed: ">> \o parsed.message]
        ELSE IF parsed.hocr_info.page_count = 0
        THEN [raised |-> "HOCRValidationError", message |-> <<"HOCR must contain at least one ocr_page">>]
        ELSE IF ~parsed.hocr_info.has_bounding_boxes
        THEN [raised |-> "HOCRValidationError", message |-> <<"HOCR must contain bounding box coordinates">>]
        ELSE Returned

----------------------------------------------------------------------------
(* Inputs. *)

SeqsUpTo(S, n) == UNION {[1..m -> S] : m \in 0..n}

\* An EasyOCR box [[x1,y1],[x2,y1],[x2,y2],[x1,y2]], in half-pixels.
Polygon(x1, y1, x2, y2) == << <<x1, y1>>, <<x2, y1>>, <<x2, y2>>, <<x1, y2>> >>

\* left edges at 0.5 px and 1.0 px: int() gives x_min 0 and 1
LeftEdges == {1, 2}

\* top and bottom edges on whole pixel rows 0..MaxY (top <= bottom)
Boxes ==
    {Polygon(x1, 2 * rows[1], x1 + 6, 2 * rows[2]) : x1 \in LeftEdges, rows \in {r \in (0..MaxY) \X (0..MaxY) : r[1] <= r[2]}}

Detection(bbox, t, confidence) == [bbox |-> bbox, text |-> t, confidence |-> confidence]

\* the detections of the conversion specification: every box, one text
Detections == {Detection(b, <<"a">>, 957) : b \in Boxes}

\* the characters of the escaping specification
Alphabet == {"&", "<", ">", "\"", "'", ";", "l", "t"}

\* the detections of the text round-trip specification: two boxes on
\* different rows, every text of at most one character, U+000B included
DocDetections ==
    {Detection(Polygon(2, 2 * y, 8, 2 * y + 2), t, c) : y \in {0, 2}, t \in SeqsUpTo(Alphabet \cup {"a", "^K"}, 1), c \in {1000}}

\* the tokens of the documents handed to the validator
DocTokens ==
    { OpenTag("html", "", NoId, NoTitle),
      CloseTag("html"),
      EmptyTag("div", "ocr_page", BBoxTitle(<<0, 0, 1, 1>>)),
      EmptyTag("div", "ocr_page", NoTitle),
      OpenTag("div", "ocr_page", NoId, NoTitle),
      CloseTag("div"),
      TextToken(<<"b", "b", "o", "x">>),
      TextToken(<<"&">>) }

----------------------------------------------------------------------------
(* The state machine. *)

\* median_height and line_threshold before the call computes them (and when
\* the early return for an empty list skips them)
NotComputed == -1

NoOutcome == [raised |-> "pending", message |-> <<>>]

NoParse == [raised |-> "pending", message |-> <<>>, hocr_info |-> NoInfo]

NoUnescape == [error |-> "pending", chars |-> <<>>]

\* conversion of detections without special characters
Init ==
    /\ pc = "convert"
    /\ easyocr_results \in SeqsUpTo(Detections, MaxWords)
    /\ image_width = 10
    /\ image_height = 8
    /\ median_height = NotComputed
    /\ line_threshold = NotComputed
    /\ lines = <<>>
    /\ hocr_content = <<>>
    /\ info = NoParse
    /\ outcome = NoOutcome
    /\ text = <<>>
    /\ escaped_text = <<>>
    /\ unescaped_text = NoUnescape

\* conversion of detections with every kind of text
InitDoc ==
    /\ pc = "convert"
    /\ easyocr_results \in SeqsUpTo(DocDetections, MaxDocWords)
    /\ image_width \in {0, 10}
    /\ image_height = 8
    /\ median_height = NotComputed
    /\ line_threshold = NotComputed
    /\ lines = <<>>
    /\ hocr_content = <<>>
    /\ info = NoParse
    /\ outcome = NoOutcome
    /\ text = <<>>
    /\ escaped_text = <<>>
    /\ unescaped_text = NoUnescape

\* validation of a document of any origin
InitValidate ==
    /\ pc = "parse"
    /\ easyocr_results = <<>>
    /\ image_width = 0
    /\ image_height = 0
    /\ median_height = NotComputed
    /\ line_threshold = NotComputed
    /\ lines = <<>>
    /\ hocr_content \in SeqsUpTo(DocTokens, MaxDocLen)
    /\ info = NoParse
    /\ outcome = NoOutcome
    /\ text = <<>>
    /\ escaped_text = <<>>
    /\ unescaped_text = NoUnescape

\* escaping of one word text
InitEscape ==
    /\ pc = "escape"
    /\ easyocr_results = <<>>
    /\ image_width = 0
    /\ image_height = 0
    /\ median_height = NotComputed
    /\ line_threshold = NotComputed
    /\ lines = <<>>
    /\ hocr_content = <<>>
    /\ info = NoParse
    /\ outcome = NoOutcome
    /\ text \in SeqsUpTo(Alphabet, MaxTextLen)
    /\ escaped_text = <<>>
    /\ unescaped_text = NoUnescape

\* easyocr_to_hocr(easyocr_results, image_width, image_height)
Convert ==
    /\ pc = "convert"
    /\ median_height' = IF easyocr_results = <<>> THEN NotComputed ELSE MedianHeight(ExtractWords(easyocr_results))
    /\ line_threshold' = IF easyocr_results = <<>> THEN NotComputed ELSE LineThreshold(ExtractWords(easyocr_results))
    /\ lines' = GroupEasyocrWordsIntoLines(easyocr_results)
    /\ hocr_content' = HocrDocument(lines', image_width, image_height)
    /\ pc' = "parse"
    /\ UNCHANGED <<easyocr_results, image_width, image_height, info, outcome, text, escaped_text, unescaped_text>>

\* parse_hocr(hocr_content)
Parse ==
    /\ pc = "parse"
    /\ info' = ParseHocr(hocr_content)
    /\ pc' = "validate"
    /\ UNCHANGED <<easyocr_results, image_width, image_height, median_height, line_threshold, lines, hocr_content, outcome, text, escaped_text, unescaped_text>>

\* validate_hocr(hocr_content)
Validate ==
    /\ pc = "validate"
    /\ outcome' = ValidateHocr(hocr_content)
    /\ pc' = "done"
    /\ UNCHANGED <<easyocr_results, image_width, image_height, median_height, line_threshold, lines, hocr_content, info, text, escaped_text, unescaped_text>>

\* the escaping of one word text inside easyocr_to_hocr
Escape ==
    /\ pc = "escape"
    /\ escaped_text' = EscapeText(text)
    /\ pc' = "unescape"
    /\ UNCHANGED <<easyocr_results, image_width, image_height, median_height, line_threshold, lines, hocr_content, info, outcome, text, unescaped_text>>

\* the XML reading of the escaped text
Unescape ==
    /\ pc = "unescape"
    /\ unescaped_text' = XmlUnescape(escaped_text)
    /\ pc' = "done"
    /\ UNCHANGED <<easyocr_results, image_width, image_height, median_height, line_threshold, lines, hocr_content, info, outcome, text, escaped_text>>

\* the conversion alone
NextConvert == Convert

\* the conversion, then the parser and the validator on its result
Next == Convert \/ Parse \/ Validate

NextValidate == Parse \/ Validate

NextEscape == Escape \/ Unescape

Spec == Init /\ [][NextConvert]_vars

SpecDoc == InitDoc /\ [][Next]_vars

SpecValidate == InitValidate /\ [][NextValidate]_vars

SpecEscape == InitEscape /\ [][NextEscape]_vars

----------------------------------------------------------------------------
(* What the properties speak about. *)

\* easyocr_to_hocr has returned
Converted == pc \in {"parse", "validate", "done"}

InputWords == ExtractWords(easyocr_results)

CountIn(s, e) == Cardinality({i \in 1..Len(s) : s[i] = e})

\* the words of all lines, in document order
RECURSIVE WordsOfLines(_)
WordsOfLines(ls) == IF ls = <<>> THEN <<>> ELSE ls[1].words \o WordsOfLines(Tail(ls))

SamePopulation(s, t) == Len(s) = Len(t) /\ \A i \in 1..Len(s) : CountIn(s, s[i]) = CountIn(t, s[i])

YCenters(words) == {words[i].y_center : i \in 1..Len(words)}

Spread(words) == MaxOf(YCenters(words)) - MinOf(YCenters(words))

IsWordToken(tok) == tok.class = "ocrx_word"

IsLineToken(tok) == tok.class = "ocr_line"

----------------------------------------------------------------------------
(* C2 *)

AllPairsWithin(words, threshold) ==
    \A i, j \in 1..Len(words) : Abs(words[i].y_center - words[j].y_center) <= threshold

\* C2: a non-empty word set in which every pair of y_centers differs by at
\* most 0.5 * median_height comes back as exactly one line that holds all
\* the words, whatever their x coordinates and their input order.
C2_CloseWordsFormOneLine ==
    (Converted /\ easyocr_results # <<>>) =>
        LET words == InputWords
        IN  AllPairsWithin(words, line_threshold) =>
               /\ Len(lines) = 1
               /\ SamePopulation(lines[1].words, words)

\* three words within the threshold, one of them exactly at the threshold
\* from another, with different left edges, given bottom row first
C2_Witness ==
    /\ Converted
    /\ Len(easyocr_results) = 3
    /\ line_threshold > 0
    /\ Len(lines) = 1
    /\ LET words == InputWords
       IN  /\ AllPairsWithin(words, line_threshold)
           /\ \E i, j \in 1..3 : words[i].y_center - words[j].y_center = line_threshold
           /\ \E i, j \in 1..3 : words[i].x_min # words[j].x_min
           /\ words[1].y_center > words[3].y_center

----------------------------------------------------------------------------
(* C3 *)

\* C3 as stated: in every returned line the words are strictly ordered by
\* ascending x_min, also when two detections share the same left edge.
C3_StrictlyAscendingXMin ==
    Converted =>
        \A l \in 1..Len(lines) : \A k \in 1..(Len(lines[l].words) - 1) :
            lines[l].words[k].x_min < lines[l].words[k + 1].x_min

\* C3 amended: in every returned line the words are ordered by
\* non-decreasing x_min (two words of a line may share their left edge).
C3_NonDecreasingXMin ==
    Converted =>
        \A l \in 1..Len(lines) : \A k \in 1..(Len(lines[l].words) - 1) :
            lines[l].words[k].x_min <= lines[l].words[k + 1].x_min

\* a line of three words given right edge first, two of them with the same
\* left edge
C3_Witness ==
    /\ Converted
    /\ Len(easyocr_results) = 3
    /\ WordOf(easyocr_results[1]).x_min > WordOf(easyocr_results[2]).x_min
    /\ \E l \in 1..Len(lines) :
          /\ Len(lines[l].words) = 3
          /\ lines[l].words[1].x_min < lines[l].words[2].x_min
          /\ lines[l].words[2].x_min = lines[l].words[3].x_min

----------------------------------------------------------------------------
(* C4 *)

\* C4: the returned lines, and so the ocr_line elements in document order,
\* are ordered by ascending anchor y_center, for every input order.
C4_LinesAscendByAnchor ==
    Converted =>
        /\ \A i \in 1..(Len(lines) - 1) : lines[i].anchor <= lines[i + 1].anchor
        /\ LET line_tokens == SelectSeq(hocr_content, IsLineToken)
           IN  /\ Len(line_tokens) = Len(lines)
               /\ \A l \in 1..Len(lines) : line_tokens[l].title.bbox = lines[l].bbox

\* three lines from detections given bottom row first
C4_Witness ==
    /\ Converted
    /\ Len(easyocr_results) = 3
    /\ WordOf(easyocr_results[1]).y_center > WordOf(easyocr_results[2]).y_center
    /\ WordOf(easyocr_results[2]).y_center > WordOf(easyocr_results[3]).y_center
    /\ Len(lines) = 3
    /\ lines[1].anchor < lines[2].anchor

----------------------------------------------------------------------------
(* C6 *)

\* C6: for N detections grouped into L lines the word ids in document order
\* are word_1_1 .. word_1_N (one counter, never reset at a new line) and
\* the line ids are line_1_1 .. line_1_L.
C6_GlobalWordCounter ==
    Converted =>
        LET word_tokens == SelectSeq(hocr_content, IsWordToken)
            line_tokens == SelectSeq(hocr_content, IsLineToken)
        IN  /\ Len(word_tokens) = Len(easyocr_results)
            /\ \A n \in 1..Len(word_tokens) : word_tokens[n].id = [kind |-> "word", page |-> 1, n |-> n]
            /\ Len(line_tokens) = Len(lines)
            /\ \A l \in 1..Len(line_tokens) : line_tokens[l].id = [kind |-> "line", page |-> 1, n |-> l]

\* two lines, the first with two words: the second line starts at word_1_3
C6_Witness ==
    /\ Converted
    /\ Len(lines) = 2
    /\ Len(lines[1].words) = 2
    /\ Len(lines[2].words) = 1
    /\ \E i \in 2..Len(hocr_content) :
          /\ hocr_content[i - 1].id = [kind |-> "line", page |-> 1, n |-> 2]
          /\ hocr_content[i].id = [kind |-> "word", page |-> 1, n |-> 3]

----------------------------------------------------------------------------
(* C8 *)

HeightsOf(words) == [i \in 1..Len(words) |-> words[i].height]

\* h is the element at 0-based index k of the ascending-sorted heights
IsSortedHeightAt(heights, h, k) ==
    /\ Cardinality({i \in 1..Len(heights) : heights[i] < h}) <= k
    /\ Cardinality({i \in 1..Len(heights) : heights[i] <= h}) >= k + 1

\* C8 as stated: the median is the element at index floor(count/2) of the
\* sorted heights, and for an even count it is the lower median, the
\* smaller of the two middle heights.
C8_LowerMedian ==
    (Converted /\ easyocr_results # <<>>) =>
        LET heights == HeightsOf(InputWords)
        IN  /\ IsSortedHeightAt(heights, median_height, Len(heights) \div 2)
            /\ (Len(heights) % 2 = 0 => IsSortedHeightAt(heights, median_height, Len(heights) \div 2 - 1))

\* C8 amended: the median is the element at index floor(count/2) of the
\* sorted heights, which for an even count is the upper median, the larger
\* of the two middle heights (for two words with heights h1 < h2 it is h2),
\* and line_threshold = 0.5 * median.
C8_UpperMedian ==
    (Converted /\ easyocr_results # <<>>) =>
        LET heights == HeightsOf(InputWords)
        IN  /\ IsSortedHeightAt(heights, median_height, Len(heights) \div 2)
            /\ (Len(heights) = 2 => median_height = MaxOf({heights[1], heights[2]}))
            /\ line_threshold = median_height

\* two words of different heights: the median is the larger height
C8_Witness ==
    /\ Converted
    /\ Len(easyocr_results) = 2
    /\ WordOf(easyocr_results[1]).height < WordOf(easyocr_results[2]).height
    /\ median_height = WordOf(easyocr_results[2]).height
    /\ line_threshold = median_height

----------------------------------------------------------------------------
(* C9 *)

\* C9: in every returned line the anchor is the smallest y_center of the
\* line, every word is within line_threshold of the anchor, and each later
\* line's anchor is more than line_threshold above the previous anchor;
\* with all heights zero two words share a line iff their y_centers are
\* equal.
C9_WordsStayNearAnchor ==
    Converted =>
        /\ \A l \in 1..Len(lines) :
              /\ \A k \in 1..Len(lines[l].words) :
                    /\ lines[l].anchor <= lines[l].words[k].y_center
                    /\ lines[l].words[k].y_center - lines[l].anchor <= line_threshold
              /\ \E k \in 1..Len(lines[l].words) : lines[l].anchor = lines[l].words[k].y_center
              /\ l > 1 => lines[l].anchor > lines[l - 1].anchor + line_threshold
        /\ (\A i \in 1..Len(easyocr_results) : WordOf(easyocr_results[i]).height = 0) =>
              /\ easyocr_results # <<>> => line_threshold = 0
              /\ \A l1, l2 \in 1..Len(lines) :
                    \A k1 \in 1..Len(lines[l1].words) : \A k2 \in 1..Len(lines[l2].words) :
                       (l1 = l2) <=> (lines[l1].words[k1].y_center = lines[l2].words[k2].y_center)

\* two lines, the first holding a word exactly line_threshold below its
\* anchor, the second anchored beyond the threshold
C9_Witness ==
    /\ Converted
    /\ line_threshold > 0
    /\ Len(lines) = 2
    /\ \E k \in 1..Len(lines[1].words) : lines[1].words[k].y_center = lines[1].anchor + line_threshold
    /\ lines[2].anchor > lines[1].anchor + line_threshold

----------------------------------------------------------------------------
(* C10 *)

\* each consecutive pair, in ascending y_center order, is within the threshold
ConsecutivePairsWithin(words, threshold) ==
    LET sorted == SortNumbers([i \in 1..Len(words) |-> words[i].y_center])
    IN  \A i \in 1..(Len(sorted) - 1) : sorted[i + 1] - sorted[i] <= threshold

\* C10 as stated: words whose consecutive pairs are within line_threshold
\* are grouped into a single line, even when later words are farther than
\* line_threshold from the first word of the line.
C10_ChainFormsOneLine ==
    (Converted /\ easyocr_results # <<>>) =>
        (ConsecutivePairsWithin(InputWords, line_threshold) => Len(lines) = 1)

\* C10 amended: words whose consecutive pairs are within line_threshold are
\* grouped into a single line only when the last word is also within
\* line_threshold of the first; a word farther than line_threshold from the
\* first word of the current line starts a new line, so no line spans more
\* than line_threshold.
C10_ChainSplitsAtAnchorDistance ==
    (Converted /\ easyocr_results # <<>>) =>
        LET words == InputWords
        IN  ConsecutivePairsWithin(words, line_threshold) =>
               /\ (Len(lines) = 1) <=> (Spread(words) <= line_threshold)
               /\ \A l \in 1..Len(lines) : Spread(lines[l].words) <= line_threshold

\* a chain of three words, the third beyond the threshold from the first:
\* it starts a second line
C10_Witness ==
    /\ Converted
    /\ Len(easyocr_results) = 3
    /\ Len(lines) = 2
    /\ Len(lines[1].words) = 2
    /\ ConsecutivePairsWithin(InputWords, line_threshold)
    /\ Spread(InputWords) > line_threshold

----------------------------------------------------------------------------
(* C7 *)

Suffix(s, i) == SubSeq(s, i, Len(s))

\* C7: the escaped text holds no raw <, >, " or ', every & in it begins
\* exactly one of the five entities, and its XML unescaping is the original
\* text (an & written by a later replacement is never escaped again).
C7_EscapeRoundTrip ==
    /\ pc \in {"unescape", "done"} =>
          /\ \A i \in 1..Len(escaped_text) : escaped_text[i] \notin {"<", ">", "\"", "'"}
          /\ \A i \in 1..Len(escaped_text) :
                escaped_text[i] = "&" => Cardinality(EntitiesAt(Suffix(escaped_text, i))) = 1
    /\ pc = "done" => unescaped_text = [error |-> "", chars |-> text]

\* a text that already looks like an entity, and one with & before <
C7_Witness ==
    /\ pc = "done"
    /\ text = <<"&", "l", "t", ";">>
    /\ escaped_text = <<"&", "a", "m", "p", ";", "l", "t", ";">>
    /\ unescaped_text.chars = text

----------------------------------------------------------------------------
(* C5 *)

WellFormed(doc) == XmlScan(doc, 1, <<>>, FALSE) = ""

PageElements(doc) ==
    {i \in 1..Len(doc) : doc[i].k \in {"open", "empty", "elem"} /\ doc[i].class = "ocr_page" /\ \E r \in 1..(i - 1) : doc[r].k \in {"open", "empty", "elem"}}

----------------------------------------------------------------------------
(* C1 *)

\* C1: for every detection sequence, parse_hocr of the converted document
\* reports word_count = len(d), page_count = 1 and has_bounding_boxes, so
\* validate_hocr succeeds; every detection is in exactly one line and is
\* emitted as exactly one ocrx_word element.
C1_RoundTripWordCount ==
    /\ Converted =>
          /\ SamePopulation(WordsOfLines(lines), InputWords)
          /\ Len(SelectSeq(hocr_content, IsWordToken)) = Len(easyocr_results)
    /\ pc \in {"validate", "done"} =>
          /\ info.raised = ""
          /\ info.hocr_info = [page_count |-> 1, word_count |-> Len(easyocr_results), has_bounding_boxes |-> TRUE]
    /\ pc = "done" => outcome = Returned

HasForbiddenChar(results) ==
    \E i \in 1..Len(results) : \E k \in 1..Len(results[i].text) : results[i].text[k] \in ForbiddenChars

\* The same statement for the detection sequences whose texts hold only
\* characters XML allows.
RoundTripOfXmlTexts == HasForbiddenChar(easyocr_results) \/ C1_RoundTripWordCount

====
